---- MODULE Spec2Model ----
(***************************************************************************)
(* Model of scripts/convert_to_docx.py: the markdown-to-docx converter.    *)
(* A string is a sequence of one-character strings; positions are 1-based  *)
(* in the helpers (Python position p is position p+1 here), while the      *)
(* cursor variable i keeps Python's 0-based value.                         *)
(***************************************************************************)
EXTENDS Integers, Sequences, FiniteSets, TLC

VARIABLES
    lines,      \* content.split('\n')
    pc,         \* position in convert_markdown_to_docx
    seen,       \* number of lines the first pass has looked at
    footnotes,  \* the dict, in insertion order: <<num, text>> pairs
    i,          \* cursor of the second pass (0-based, as in the code)
    doc,        \* the document body: blocks in the order they were added
    order,      \* sorted(footnotes.keys(), key=int), once computed
    arg,        \* argument of a helper called on its own
    ret         \* <<result>> of that helper, <<>> before the call

vars == <<lines, pc, seen, footnotes, i, doc, order, arg, ret>>

(***************************************************************************)
(* Bounds of the model.                                                    *)
(***************************************************************************)
MaxLines == 3
MaxScanLen == 8
MaxTableLines == 4
MaxStart == 1
MaxCursorLines == 2
MaxCursorRun == 3

(***************************************************************************)
(* Python str and re primitives, over the characters the inputs use.       *)
(***************************************************************************)
IsSpace(c) == c = " "

IsDigit(c) == c \in {"0", "1", "2", "3", "4", "5", "6", "7", "8", "9"}

RECURSIVE lstrip(_)
lstrip(s) == IF s # <<>> /\ IsSpace(Head(s)) THEN lstrip(Tail(s)) ELSE s

RECURSIVE rstrip(_)
rstrip(s) ==
    IF s # <<>> /\ IsSpace(s[Len(s)]) THEN rstrip(SubSeq(s, 1, Len(s) - 1)) ELSE s

strip(s) == lstrip(rstrip(s))

\* s[pos:] with pos 1-based
From(s, pos) == SubSeq(s, pos, Len(s))

\* s.startswith(p, pos): p occurs in s at position pos
HasAt(s, p, pos) ==
    /\ pos >= 1
    /\ pos + Len(p) - 1 <= Len(s)
    /\ SubSeq(s, pos, pos + Len(p) - 1) = p

startswith(s, p) == HasAt(s, p, 1)

\* p in s
contains(s, p) == \E pos \in 1..Len(s) : HasAt(s, p, pos)

\* s.replace(old, new): every non-overlapping occurrence, left to right
RECURSIVE replace(_, _, _)
replace(s, old, new) ==
    IF s = <<>> THEN <<>>
    ELSE IF startswith(s, old)
         THEN new \o replace(From(s, Len(old) + 1), old, new)
         ELSE <<Head(s)>> \o replace(Tail(s), old, new)

\* length of the run of digits of s that starts at pos (what \d+ takes)
RECURSIVE DigitRun(_, _)
DigitRun(s, pos) ==
    IF pos <= Len(s) /\ IsDigit(s[pos]) THEN 1 + DigitRun(s, pos + 1) ELSE 0

\* length of the run of whitespace of s that starts at pos (what \s* takes)
RECURSIVE SpaceRun(_, _)
SpaceRun(s, pos) ==
    IF pos <= Len(s) /\ IsSpace(s[pos]) THEN 1 + SpaceRun(s, pos + 1) ELSE 0

\* the group (.+) after a greedy \s* or \s+ that may give one character back
TailGroup(r) ==
    IF SpaceRun(r, 1) < Len(r) THEN From(r, SpaceRun(r, 1) + 1) ELSE <<r[Len(r)]>>

\* int(num) for a string of digits
DigitVal(c) ==
    CASE c = "0" -> 0 [] c = "1" -> 1 [] c = "2" -> 2 [] c = "3" -> 3
      [] c = "4" -> 4 [] c = "5" -> 5 [] c = "6" -> 6 [] c = "7" -> 7
      [] c = "8" -> 8 [] c = "9" -> 9

RECURSIVE int(_)
int(num) ==
    IF num = <<>> THEN 0
    ELSE 10 * int(SubSeq(num, 1, Len(num) - 1)) + DigitVal(num[Len(num)])

(***************************************************************************)
(* footnote_pattern = r'^\[\^(\d+)\]:\s*(.+)$', used with re.match         *)
(***************************************************************************)
footnote_match(s) ==
    LET d == DigitRun(s, 3)
    IN  /\ startswith(s, <<"[", "^">>)
        /\ d >= 1
        /\ HasAt(s, <<"]", ":">>, 3 + d)
        /\ From(s, 5 + d) # <<>>

footnote_num(s) == SubSeq(s, 3, 2 + DigitRun(s, 3))

footnote_text(s) == TailGroup(From(s, 5 + DigitRun(s, 3)))

(***************************************************************************)
(* re.sub(r'\[\^(\d+)\]', r'[\1]', text)                                   *)
(***************************************************************************)
\* a variant that leaves the references as they are
sub_refs_unchanged(text) == text

RECURSIVE sub_refs(_)
sub_refs(text) ==
    IF text = <<>> THEN <<>>
    ELSE LET d == DigitRun(text, 3)
         IN  IF startswith(text, <<"[", "^">>) /\ d >= 1 /\ HasAt(text, <<"]">>, 3 + d)
             THEN <<"[">> \o SubSeq(text, 3, 2 + d) \o <<"]">>
                      \o sub_refs(From(text, 4 + d))
             ELSE <<Head(text)>> \o sub_refs(Tail(text))

(***************************************************************************)
(* parse_markdown_line: the pattern is "bold" (two stars, a non-greedy     *)
(* group of at least one character, two stars) or else "italic" (one star, *)
(* a non-greedy group of at least one character, one star).                *)
(***************************************************************************)
\* least q >= from with p at position q of line, 0 when there is none
RECURSIVE Find(_, _, _)
Find(line, p, from) ==
    IF from > Len(line) THEN 0
    ELSE IF HasAt(line, p, from) THEN from
    ELSE Find(line, p, from + 1)

\* a variant that tries the italic alternative before the bold one
MatchAt_ItalicFirst(line, pos) ==
    LET bq == IF HasAt(line, <<"*", "*">>, pos)
              THEN Find(line, <<"*", "*">>, pos + 3) ELSE 0
        iq == IF HasAt(line, <<"*">>, pos)
              THEN Find(line, <<"*">>, pos + 2) ELSE 0
    IN  IF iq # 0
        THEN [kind |-> "italic", text |-> SubSeq(line, pos + 1, iq - 1), end |-> iq + 1]
        ELSE IF bq # 0
        THEN [kind |-> "bold", text |-> SubSeq(line, pos + 2, bq - 1), end |-> bq + 2]
        ELSE [kind |-> "none", text |-> <<>>, end |-> pos]

\* a variant whose groups are greedy: a match closes at the last closing
\* marker of the line instead of the nearest
MatchAt_Greedy(line, pos) ==
    LET Last(p, from) ==
            IF \E q \in from..Len(line) : HasAt(line, p, q)
            THEN CHOOSE q \in from..Len(line) :
                     /\ HasAt(line, p, q)
                     /\ \A r \in (q + 1)..Len(line) : ~HasAt(line, p, r)
            ELSE 0
        bq == IF HasAt(line, <<"*", "*">>, pos)
              THEN Last(<<"*", "*">>, pos + 3) ELSE 0
        iq == IF HasAt(line, <<"*">>, pos)
              THEN Last(<<"*">>, pos + 2) ELSE 0
    IN  IF bq # 0
        THEN [kind |-> "bold", text |-> SubSeq(line, pos + 2, bq - 1), end |-> bq + 2]
        ELSE IF iq # 0
        THEN [kind |-> "italic", text |-> SubSeq(line, pos + 1, iq - 1), end |-> iq + 1]
        ELSE [kind |-> "none", text |-> <<>>, end |-> pos]

\* a variant whose bold match ends one character early, before the last
\* star of the closing marker
MatchAt_ShortEnd(line, pos) ==
    LET bq == IF HasAt(line, <<"*", "*">>, pos)
              THEN Find(line, <<"*", "*">>, pos + 3) ELSE 0
        iq == IF HasAt(line, <<"*">>, pos)
              THEN Find(line, <<"*">>, pos + 2) ELSE 0
    IN  IF bq # 0
        THEN [kind |-> "bold", text |-> SubSeq(line, pos + 2, bq - 1), end |-> bq + 1]
        ELSE IF iq # 0
        THEN [kind |-> "italic", text |-> SubSeq(line, pos + 1, iq - 1), end |-> iq + 1]
        ELSE [kind |-> "none", text |-> <<>>, end |-> pos]

\* the match of the pattern that starts at position pos, kind "none" if none:
\* the first alternative (bold) is tried first, each group is non-greedy
MatchAt(line, pos) ==
    LET bq == IF HasAt(line, <<"*", "*">>, pos)
              THEN Find(line, <<"*", "*">>, pos + 3) ELSE 0
        iq == IF HasAt(line, <<"*">>, pos)
              THEN Find(line, <<"*">>, pos + 2) ELSE 0
    IN  IF bq # 0
        THEN [kind |-> "bold", text |-> SubSeq(line, pos + 2, bq - 1), end |-> bq + 2]
        ELSE IF iq # 0
        THEN [kind |-> "italic", text |-> SubSeq(line, pos + 1, iq - 1), end |-> iq + 1]
        ELSE [kind |-> "none", text |-> <<>>, end |-> pos]

\* the loop over re.finditer: pos is where the search goes on, current_pos
\* the end of the last match
RECURSIVE Segments(_, _, _)
Segments(line, pos, current_pos) ==
    IF pos > Len(line)
    THEN IF current_pos <= Len(line)
         THEN << <<"normal", From(line, current_pos)>> >>
         ELSE <<>>
    ELSE LET m == MatchAt(line, pos)
         IN  IF m.kind = "none"
             THEN Segments(line, pos + 1, current_pos)
             ELSE (IF pos > current_pos
                   THEN << <<"normal", SubSeq(line, current_pos, pos - 1)>> >>
                   ELSE <<>>)
                  \o << <<m.kind, m.text>> >>
                  \o Segments(line, m.end, m.end)

parse_markdown_line(line) ==
    LET segments == Segments(line, 1, 1)
    IN  IF segments = <<>> THEN << <<"normal", line>> >> ELSE segments

(***************************************************************************)
(* The document: a sequence of blocks.  A paragraph carries the attributes *)
(* the code sets on it; role, src and span record which rule of the second *)
(* pass added the block, at which cursor, and how many lines it consumed,  *)
(* and num the key of the footnote an entry of the footnotes section shows.*)
(***************************************************************************)
Block(type, style, role, src) ==
    [type |-> type, style |-> style, bidi |-> FALSE, alignment |-> "none",
     runs |-> <<>>, left_indent |-> 0, right_indent |-> 0,
     first_line_indent |-> 0, grid |-> <<>>, role |-> role, src |-> src,
     span |-> 1, num |-> <<>>]

\* a variant that leaves the paragraph as it is
set_rtl_skipped(paragraph) == paragraph

\* set_rtl(paragraph)
set_rtl(paragraph) == [paragraph EXCEPT !.bidi = TRUE]

\* paragraph.add_run(content) with the flags of format_type
Run(format_type, content) ==
    [text |-> content, bold |-> format_type = "bold",
     italic |-> format_type = "italic"]

\* the paragraph add_formatted_paragraph builds: RTL, one run per segment
formatted_paragraph(text, style, role, src) ==
    LET segments == parse_markdown_line(text)
        paragraph == set_rtl(Block("paragraph", style, role, src))
    IN  [paragraph EXCEPT
            !.runs = [n \in 1..Len(segments) |->
                        Run(segments[n][1], segments[n][2])]]

add_formatted_paragraph(d, text, style, role, src) ==
    Append(d, formatted_paragraph(text, style, role, src))

\* the title page: a centred RTL title and a page break
TitleText == <<"T">>

TitlePage ==
    << [set_rtl(Block("paragraph", "Normal", "title", -1)) EXCEPT
            !.alignment = "center", !.runs = <<Run("bold", TitleText)>>],
       Block("page_break", "", "title_break", -1) >>

(***************************************************************************)
(* parse_table and add_table_to_doc                                        *)
(***************************************************************************)
\* s.split('|')
RECURSIVE split(_, _)
split(s, sep) ==
    LET q == Find(s, <<sep>>, 1)
    IN  IF q = 0 THEN <<s>>
        ELSE <<SubSeq(s, 1, q - 1)>> \o split(From(s, q + 1), sep)

\* [cell.strip() for cell in line.split('|') if cell.strip()]
Cells(line) ==
    LET parts == split(line, "|")
        kept == SelectSeq(parts, LAMBDA cell : strip(cell) # <<>>)
    IN  [n \in 1..Len(kept) |-> strip(kept[n])]

\* a variant that stops the run after the separator line
RunEnd_TwoLines(ls, idx) ==
    IF /\ idx + 1 < Len(ls)
       /\ contains(ls[idx + 1], <<"|">>)
       /\ contains(ls[idx + 2], <<"|">>)
    THEN idx + 2
    ELSE idx

\* the while loop of parse_table: the index after the run of '|' lines
RECURSIVE RunEnd(_, _)
RunEnd(ls, idx) ==
    IF idx < Len(ls) /\ contains(ls[idx + 1], <<"|">>) THEN RunEnd(ls, idx + 1) ELSE idx

None == [none |-> TRUE]

\* a variant that keeps the separator line as a data row
parse_table_keeps_separator(ls, start_idx) ==
    LET idx == RunEnd(ls, start_idx)
        table_lines == SubSeq(ls, start_idx + 1, idx)
        body == [n \in 1..(Len(table_lines) - 1) |-> Cells(table_lines[n + 1])]
    IN  IF Len(table_lines) < 2 THEN <<None, start_idx>>
        ELSE << [headers |-> Cells(table_lines[1]),
                 rows |-> SelectSeq(body, LAMBDA cells : cells # <<>>)], idx >>

\* parse_table(lines, start_idx), start_idx 0-based: <<table_data, idx>>
parse_table(ls, start_idx) ==
    LET idx == RunEnd(ls, start_idx)
        table_lines == SubSeq(ls, start_idx + 1, idx)
        body == [n \in 1..(Len(table_lines) - 2) |-> Cells(table_lines[n + 2])]
    IN  IF Len(table_lines) < 2 THEN <<None, start_idx>>
        ELSE << [headers |-> Cells(table_lines[1]),
                 rows |-> SelectSeq(body, LAMBDA cells : cells # <<>>)], idx >>

\* a cell of a new table: one empty paragraph
EmptyCell == [text |-> <<>>, bidi |-> FALSE, bold |-> FALSE, alignment |-> "none"]

\* a variant that gives every table two columns
grid_cols_two(table_data) == 2

\* the columns of the new table: doc.add_table(..., cols=len(headers))
grid_cols(table_data) == Len(table_data.headers)

\* a variant without the test "col_idx < len(row_cells)"
data_cell_writes_unguarded(table_data) ==
    UNION { { <<r, c>> : c \in 1..Len(table_data.rows[r]) } :
            r \in 1..Len(table_data.rows) }

\* the cells the "Add rows" loop assigns: <<row_idx, col_idx>> (here from 1)
\* for every cell of every row that passes "col_idx < len(row_cells)"
data_cell_writes(table_data) ==
    UNION { { <<r, c>> : c \in {c \in 1..Len(table_data.rows[r]) :
                                    c <= grid_cols(table_data)} } :
            r \in 1..Len(table_data.rows) }

\* an index outside the cells of a row of the new table raises IndexError:
\* header_cells[idx] in the "Add headers" loop, row_cells[col_idx] in the
\* "Add rows" loop
table_raises(table_data) ==
    \/ \E c \in 1..Len(table_data.headers) : c > grid_cols(table_data)
    \/ \E w \in data_cell_writes(table_data) : w[2] > grid_cols(table_data)

\* the grid add_table_to_doc fills: 1 + len(rows) rows of len(headers) cells
table_grid(table_data) ==
    LET headers == table_data.headers
        rows == table_data.rows
        writes == data_cell_writes(table_data)
    IN  [r \in 1..(1 + Len(rows)) |->
            [c \in 1..grid_cols(table_data) |->
                IF r = 1 /\ c <= Len(headers)
                THEN [text |-> headers[c], bidi |-> TRUE, bold |-> TRUE,
                      alignment |-> "right"]
                ELSE IF r > 1 /\ <<r - 1, c>> \in writes
                THEN [text |-> rows[r - 1][c], bidi |-> TRUE, bold |-> FALSE,
                      alignment |-> "right"]
                ELSE EmptyCell]]

add_table_to_doc(d, table_data, src, span) ==
    IF table_data = None THEN d
    ELSE Append(d, [Block("table", "Light Grid Accent 1", "table", src) EXCEPT
                        !.grid = table_grid(table_data), !.span = span])

(***************************************************************************)
(* The footnotes dict (insertion-ordered) and sorted(keys, key=int)        *)
(***************************************************************************)
HasKey(d, key) == \E n \in 1..Len(d) : d[n][1] = key

\* d[key] = val
DictSet(d, key, val) ==
    IF HasKey(d, key)
    THEN [n \in 1..Len(d) |-> IF d[n][1] = key THEN <<key, val>> ELSE d[n]]
    ELSE Append(d, <<key, val>>)

\* d[key]
DictGet(d, key) == LET n == CHOOSE n \in 1..Len(d) : d[n][1] = key IN d[n][2]

Keys(d) == [n \in 1..Len(d) |-> d[n][1]]

\* the numeric sort key of sorted(..., key=int)
SortKey(num) == int(num)

\* x goes after the last element whose key is not greater (stable)
RECURSIVE InsertSorted(_, _)
InsertSorted(s, x) ==
    IF s = <<>> THEN <<x>>
    ELSE IF SortKey(s[Len(s)]) <= SortKey(x) THEN Append(s, x)
    ELSE Append(InsertSorted(SubSeq(s, 1, Len(s) - 1), x), s[Len(s)])

RECURSIVE sorted(_)
sorted(keys) ==
    IF keys = <<>> THEN <<>>
    ELSE InsertSorted(sorted(SubSeq(keys, 1, Len(keys) - 1)), keys[Len(keys)])

(***************************************************************************)
(* The inputs: documents of 1 to MaxLines lines drawn from LineSet (the    *)
(* split of a file's content always gives at least one line).              *)
(***************************************************************************)
LBlank == <<>>                                               \* ""
LDef2 == <<"[", "^", "2", "]", ":", " ", "a", "|", "b">>     \* "[^2]: a|b"
LDef2c == <<"[", "^", "2", "]", ":", " ", "c">>              \* "[^2]: c"
LDef02 == <<"[", "^", "0", "2", "]", ":", " ", "b">>         \* "[^02]: b"
LDef10 == <<"[", "^", "1", "0", "]", ":", "c">>              \* "[^10]:c"
LPar == <<"c", " ", "*", "[", "^", "2", "]", "*", "[", "^", "1", "0", "]">>
                                                             \* "c *[^2]*[^10]"
LHead == <<"#", " ", "a", "[", "^", "2", "]">>               \* "# a[^2]"
LQuote == <<">", " ", "[", "^", "1", "0", "]">>              \* "> [^10]"
LTab == <<"a", "|", "b">>                                    \* "a|b"
LBullet == <<"-", " ", "b", "[", "^", "0", "2", "]">>        \* "- b[^02]"
LNum == <<"1", ".", " ", "c", "[", "^", "1", "0", "]">>      \* "1. c[^10]"
LSep == <<"-", "-", "-">>                                    \* "---"

LineSet ==
    {LBlank, LDef2, LDef2c, LDef02, LDef10, LPar, LHead, LQuote, LTab,
     LBullet, LNum, LSep}

(***************************************************************************)
(* convert_markdown_to_docx                                                *)
(***************************************************************************)
Init ==
    /\ \E m \in 1..MaxLines : lines \in [1..m -> LineSet]
    /\ pc = "collect"
    /\ seen = 0
    /\ footnotes = <<>>
    /\ i = 0
    /\ doc = TitlePage
    /\ order = <<>>
    /\ arg = <<>>
    /\ ret = <<>>

\* first pass, one line: a footnote definition sets footnotes[num]
CollectFootnote ==
    /\ pc = "collect"
    /\ seen < Len(lines)
    /\ LET s == strip(lines[seen + 1])
       IN  footnotes' = IF footnote_match(s)
                        THEN DictSet(footnotes, footnote_num(s), footnote_text(s))
                        ELSE footnotes
    /\ seen' = seen + 1
    /\ UNCHANGED <<lines, pc, i, doc, order, arg, ret>>

\* the first loop is over: the second pass starts with i = 0
StartSecondPass ==
    /\ pc = "collect"
    /\ seen = Len(lines)
    /\ pc' = "body"
    /\ i' = 0
    /\ UNCHANGED <<lines, seen, footnotes, doc, order, arg, ret>>

\* line = lines[i].rstrip()
CurLine == rstrip(lines[i + 1])

InBody == pc = "body" /\ i < Len(lines)

\* the tests of the if-cascade, each reached only when the earlier ones fail
IsBlank(line) == line = <<>>

IsFootnoteDef(line) == footnote_match(strip(line))

IsSeparator(line) == strip(line) = <<"-", "-", "-">>

IsHeading(line) == startswith(line, <<"#">>)

IsBlockquote(line) == startswith(line, <<">">>)

\* the table test, and parse_table returning a table
IsTableStart(ls, idx) ==
    /\ contains(rstrip(ls[idx + 1]), <<"|">>)
    /\ idx + 1 < Len(ls)
    /\ contains(ls[idx + 2], <<"|">>)
    /\ parse_table(ls, idx)[1] # None

\* re.match(r'^(\d+)\.\s+(.+)$', line)
numbered_list_match(line) ==
    LET d == DigitRun(line, 1)
    IN  /\ d >= 1
        /\ HasAt(line, <<".">>, d + 1)
        /\ SpaceRun(line, d + 2) >= 1
        /\ Len(line) >= d + 3

numbered_list_text(line) ==
    LET d == DigitRun(line, 1)
        r == From(line, d + 2)
    IN  IF SpaceRun(r, 1) < Len(r) THEN From(r, SpaceRun(r, 1) + 1)
        ELSE <<r[Len(r)]>>

IsBullet(line) ==
    startswith(strip(line), <<"-">>) \/ startswith(strip(line), <<"*">>)

\* re.sub(r'^[\-\*]\s+', '', s)
strip_bullet(s) ==
    IF s # <<>> /\ s[1] \in {"-", "*"} /\ SpaceRun(s, 2) >= 1
    THEN From(s, 2 + SpaceRun(s, 2))
    ELSE s

\* a variant of the cascade that tries the table test before the heading
\* and blockquote tests
Rule_TableFirst(ls, idx) ==
    LET line == rstrip(ls[idx + 1])
    IN  IF IsBlank(line) THEN "blank"
        ELSE IF IsFootnoteDef(line) THEN "footnote"
        ELSE IF IsSeparator(line) THEN "separator"
        ELSE IF IsTableStart(ls, idx) THEN "table"
        ELSE IF IsHeading(line) THEN "heading"
        ELSE IF IsBlockquote(line) THEN "blockquote"
        ELSE IF numbered_list_match(line) THEN "numbered"
        ELSE IF IsBullet(line) THEN "bullet"
        ELSE "paragraph"

\* which branch of the cascade takes the line at cursor idx
Rule(ls, idx) ==
    LET line == rstrip(ls[idx + 1])
    IN  IF IsBlank(line) THEN "blank"
        ELSE IF IsFootnoteDef(line) THEN "footnote"
        ELSE IF IsSeparator(line) THEN "separator"
        ELSE IF IsHeading(line) THEN "heading"
        ELSE IF IsBlockquote(line) THEN "blockquote"
        ELSE IF IsTableStart(ls, idx) THEN "table"
        ELSE IF numbered_list_match(line) THEN "numbered"
        ELSE IF IsBullet(line) THEN "bullet"
        ELSE "paragraph"

Advance == 
    /\ i' = i + 1
    /\ UNCHANGED <<lines, pc, seen, footnotes, order, arg, ret>>

SkipBlank ==
    /\ InBody
    /\ Rule(lines, i) = "blank"
    /\ doc' = doc
    /\ Advance

SkipFootnoteDef ==
    /\ InBody
    /\ Rule(lines, i) = "footnote"
    /\ doc' = doc
    /\ Advance

\* doc.add_paragraph(): an empty paragraph, no RTL
AddSeparator ==
    /\ InBody
    /\ Rule(lines, i) = "separator"
    /\ doc' = Append(doc, Block("paragraph", "Normal", "separator", i))
    /\ Advance

\* the marker the heading branch removes, longest first
HeadingMarker(line) ==
    IF startswith(line, <<"#", "#", "#">>) THEN <<"#", "#", "#">>
    ELSE IF startswith(line, <<"#", "#">>) THEN <<"#", "#">>
    ELSE <<"#">>

HeadingStyle(line) ==
    IF Len(HeadingMarker(line)) = 3 THEN "Heading 3"
    ELSE IF Len(HeadingMarker(line)) = 2 THEN "Heading 2"
    ELSE "Heading 1"

AddHeading ==
    /\ InBody
    /\ Rule(lines, i) = "heading"
    /\ LET text == strip(replace(CurLine, HeadingMarker(CurLine), <<>>))
       IN  doc' = add_formatted_paragraph(doc, text, HeadingStyle(CurLine),
                                          "heading", i)
    /\ Advance

AddBlockquote ==
    /\ InBody
    /\ Rule(lines, i) = "blockquote"
    /\ LET text == strip(replace(CurLine, <<">">>, <<>>))
           paragraph == formatted_paragraph(text, "Normal", "blockquote", i)
       IN  doc' = Append(doc, [paragraph EXCEPT !.left_indent = 50,
                                                !.right_indent = 50])
    /\ Advance

\* the table branch: i = next_idx
AddTable ==
    /\ InBody
    /\ Rule(lines, i) = "table"
    /\ LET res == parse_table(lines, i)
       IN  IF res[1] # None /\ table_raises(res[1])
           THEN /\ pc' = "raised"
                /\ UNCHANGED <<doc, i>>
           ELSE /\ doc' = add_table_to_doc(doc, res[1], i, res[2] - i)
                /\ i' = res[2]
                /\ pc' = pc
    /\ UNCHANGED <<lines, seen, footnotes, order, arg, ret>>

AddNumbered ==
    /\ InBody
    /\ Rule(lines, i) = "numbered"
    /\ LET text == sub_refs(numbered_list_text(CurLine))
       IN  doc' = add_formatted_paragraph(doc, text, "List Number", "numbered", i)
    /\ Advance

\* a variant that adds the text of a bullet line to the list paragraph
\* before it instead of starting a new one
AddBullet_Merging ==
    /\ InBody
    /\ Rule(lines, i) = "bullet"
    /\ LET text == sub_refs(strip_bullet(strip(CurLine)))
           item == formatted_paragraph(text, "List Bullet", "bullet", i)
       IN  IF doc[Len(doc)].style = "List Bullet"
           THEN doc' = [doc EXCEPT ![Len(doc)].runs = @ \o item.runs]
           ELSE doc' = Append(doc, item)
    /\ Advance

AddBullet ==
    /\ InBody
    /\ Rule(lines, i) = "bullet"
    /\ LET text == sub_refs(strip_bullet(strip(CurLine)))
       IN  doc' = add_formatted_paragraph(doc, text, "List Bullet", "bullet", i)
    /\ Advance

AddParagraph ==
    /\ InBody
    /\ Rule(lines, i) = "paragraph"
    /\ LET text == sub_refs(strip(CurLine))
       IN  doc' = add_formatted_paragraph(doc, text, "Normal", "paragraph", i)
    /\ Advance

\* the footnotes heading: page break, centred RTL heading, empty paragraph
FootnotesHeadingText == <<"F">>

\* a variant without the page break
FootnotesHeading_NoBreak ==
    << [set_rtl(Block("paragraph", "Normal", "footnotes_heading", -1)) EXCEPT
            !.alignment = "center",
            !.runs = <<Run("bold", FootnotesHeadingText)>>],
       Block("paragraph", "Normal", "footnotes_gap", -1) >>

FootnotesHeading ==
    << Block("page_break", "", "footnotes_break", -1),
       [set_rtl(Block("paragraph", "Normal", "footnotes_heading", -1)) EXCEPT
            !.alignment = "center",
            !.runs = <<Run("bold", FootnotesHeadingText)>>],
       Block("paragraph", "Normal", "footnotes_gap", -1) >>

\* if footnotes: ... ; the loop variable then runs over the sorted keys
AddFootnotesSection ==
    /\ pc = "body"
    /\ i >= Len(lines)
    /\ footnotes # <<>>
    /\ doc' = doc \o FootnotesHeading
    /\ order' = sorted(Keys(footnotes))
    /\ pc' = "entries"
    /\ UNCHANGED <<lines, seen, footnotes, i, arg, ret>>

NoFootnotesSection ==
    /\ pc = "body"
    /\ i >= Len(lines)
    /\ footnotes = <<>>
    /\ pc' = "save"
    /\ UNCHANGED <<lines, seen, footnotes, i, doc, order, arg, ret>>

\* footnote_text = f"[{num}] {footnotes[num]}"
footnote_entry(num, text) == <<"[">> \o num \o <<"]", " ">> \o text

AddFootnote ==
    /\ pc = "entries"
    /\ order # <<>>
    /\ LET num == Head(order)
           paragraph == formatted_paragraph(
                            footnote_entry(num, DictGet(footnotes, num)),
                            "Normal", "footnote", -1)
       IN  doc' = Append(doc, [paragraph EXCEPT !.left_indent = 50,
                                                !.first_line_indent = -25,
                                                !.num = num])
    /\ order' = Tail(order)
    /\ pc' = IF Tail(order) = <<>> THEN "save" ELSE "entries"
    /\ UNCHANGED <<lines, seen, footnotes, i, arg, ret>>

\* doc.save(output_file)
Save ==
    /\ pc = "save"
    /\ pc' = "done"
    /\ UNCHANGED <<lines, seen, footnotes, i, doc, order, arg, ret>>

Next ==
    \/ CollectFootnote
    \/ StartSecondPass
    \/ SkipBlank
    \/ SkipFootnoteDef
    \/ AddSeparator
    \/ AddHeading
    \/ AddBlockquote
    \/ AddTable
    \/ AddNumbered
    \/ AddBullet
    \/ AddParagraph
    \/ AddFootnotesSection
    \/ NoFootnotesSection
    \/ AddFootnote
    \/ Save

Spec == Init /\ [][Next]_vars

(***************************************************************************)
(* convert_markdown_to_docx on lines that try the block rules: markers     *)
(* inside the text of a heading or blockquote, an empty heading, a heading *)
(* with a cell delimiter, table lines of zero and of three cells, a bullet *)
(* character with and without a space after it, a bullet line with a cell  *)
(* delimiter, an unclosed emphasis marker; and on the one-line input       *)
(* "### Title".                                                            *)
(***************************************************************************)
BBlank == <<>>                                               \* ""
BDef == <<"[", "^", "1", "]", ":", " ", "a">>                \* "[^1]: a"
BSep == <<"-", "-", "-">>                                    \* "---"
BHead1 == <<"#", " ", "a", "#", "b">>                        \* "# a#b"
BHead2 == <<"#", "#">>                                       \* "##"
BHead3 == <<"#", "#", "#", " ", "a", "|", "b">>              \* "### a|b"
BQuote == <<">", " ", "a", ">", "b">>                        \* "> a>b"
BPipe == <<"|">>                                             \* "|"
BRow == <<"a", "|", "b", "|", "c">>                          \* "a|b|c"
BNum == <<"1", ".", " ", "a">>                               \* "1. a"
BDash == <<"-", " ", "a">>                                   \* "- a"
BStar == <<"*", " ", "*", "*", "b">>                         \* "* **b"
BDashCell == <<"-", " ", "b", "|", "c">>                     \* "- b|c"
BTight == <<"-", "a">>                                       \* "-a"
BPar == <<"a">>                                              \* "a"
BTitle == <<"#", "#", "#", " ", "T", "i", "t", "l", "e">>    \* "### Title"

BlockLineSet ==
    {BBlank, BDef, BSep, BHead1, BHead2, BHead3, BQuote, BPipe, BRow, BNum,
     BDash, BStar, BDashCell, BTight, BPar}

InitBlocks ==
    /\ \/ \E m \in 1..MaxLines : lines \in [1..m -> BlockLineSet]
       \/ lines = <<BTitle>>
    /\ pc = "collect"
    /\ seen = 0
    /\ footnotes = <<>>
    /\ i = 0
    /\ doc = TitlePage
    /\ order = <<>>
    /\ arg = <<>>
    /\ ret = <<>>

SpecBlocks == InitBlocks /\ [][Next]_vars

(***************************************************************************)
(* convert_markdown_to_docx run to its end: the program is one sequential  *)
(* thread, so a step that can be taken is taken (weak fairness of Next).   *)
(* The input is at most MaxCursorLines lines of CursorLineSet, one short   *)
(* line for each branch of the second pass; or a run of 2 to MaxCursorRun  *)
(* table lines with at most one line of CursorAround (a skipped line, a    *)
(* list item, a paragraph) before it and at most one after it; or such a   *)
(* run, one line of CursorAround and a second run of two table lines.      *)
(***************************************************************************)
KBlank == <<>>                                               \* ""
KDef == <<"[", "^", "1", "]", ":", "a">>                     \* "[^1]:a"
KSep == <<"-", "-", "-">>                                    \* "---"
KHead == <<"#", "a">>                                        \* "#a"
KQuote == <<">", "a">>                                       \* ">a"
KCell == <<"a", "|">>                                        \* "a|"
KNum == <<"1", ".", " ", "a">>                               \* "1. a"
KBullet == <<"-", " ", "a">>                                 \* "- a"
KPar == <<"a">>                                              \* "a"

CursorLineSet ==
    {KBlank, KDef, KSep, KHead, KQuote, KCell, KNum, KBullet, KPar}

\* n table lines in a row
CellRun(n) == [k \in 1..n |-> KCell]

\* the lines put before, after and between table runs
CursorAround == {KBlank, KBullet, KPar}

\* no line, or one line of CursorAround
OneOrNone == {<<>>} \cup {<<line>> : line \in CursorAround}

\* a paragraph, a table of three lines, a list item
CursorExample == <<KPar, KCell, KCell, KCell, KBullet>>

InitCursor ==
    /\ \/ \E m \in 1..MaxCursorLines : lines \in [1..m -> CursorLineSet]
       \/ \E n \in 2..MaxCursorRun :
              \E pre \in OneOrNone, post \in OneOrNone :
                  lines = pre \o CellRun(n) \o post
       \/ \E n \in 2..MaxCursorRun :
              \E mid \in CursorAround :
                  lines = CellRun(n) \o <<mid>> \o CellRun(2)
    /\ pc = "collect"
    /\ seen = 0
    /\ footnotes = <<>>
    /\ i = 0
    /\ doc = TitlePage
    /\ order = <<>>
    /\ arg = <<>>
    /\ ret = <<>>

SpecCursor == InitCursor /\ [][Next]_vars /\ WF_vars(Next)

(***************************************************************************)
(* parse_markdown_line called on its own, on every line of at most         *)
(* MaxScanLen characters over ScanChars and on the lines "a **b** c" and    *)
(* "**a** b **c**".                                                        *)
(***************************************************************************)
ScanChars == {"a", " ", "*"}

ScanExample == <<"a", " ", "*", "*", "b", "*", "*", " ", "c">>

ScanExample2 ==
    <<"*", "*", "a", "*", "*", " ", "b", " ", "*", "*", "c", "*", "*">>

InitScan ==
    /\ \/ \E m \in 0..MaxScanLen : arg \in [1..m -> ScanChars]
       \/ arg = ScanExample
       \/ arg = ScanExample2
    /\ ret = <<>>
    /\ pc = "scan"
    /\ lines = <<>>
    /\ seen = 0
    /\ footnotes = <<>>
    /\ i = 0
    /\ doc = <<>>
    /\ order = <<>>

Scan ==
    /\ pc = "scan"
    /\ ret' = <<parse_markdown_line(arg)>>
    /\ pc' = "scanned"
    /\ UNCHANGED <<lines, seen, footnotes, i, doc, order, arg>>

NextScan == Scan

SpecScan == InitScan /\ [][NextScan]_vars

(***************************************************************************)
(* parse_table and add_table_to_doc called on their own: arg.ls is the     *)
(* line list, of at most MaxTableLines lines of TableLineSet, and          *)
(* arg.start_idx the index the table is parsed from, at most MaxStart.     *)
(***************************************************************************)
TH == <<"|", " ", "A", " ", "|", " ", "B", " ", "|">>        \* "| A | B |"
TS == <<"|", "-", "-", "-", "|", "-", "-", "-", "|">>        \* "|---|---|"
TR == <<"|", " ", "1", " ", "|", " ", "2", " ", "|">>        \* "| 1 | 2 |"
TE == <<"|">>                                                \* "|"
TL == <<"a", "|", "|", "b", "|", "c">>                       \* "a||b|c"
TX == <<"x">>                                                \* "x"
TC == <<"c", "|">>                                           \* "c|"

TableLineSet == {TH, TS, TR, TE, TL, TX, TC}

InitTable ==
    /\ \E m \in 0..MaxTableLines :
           \E ls \in [1..m -> TableLineSet] :
               \E st \in 0..MaxStart :
                   /\ st <= m
                   /\ arg = [ls |-> ls, start_idx |-> st]
    /\ ret = <<>>
    /\ pc = "parse_table"
    /\ lines = <<>>
    /\ seen = 0
    /\ footnotes = <<>>
    /\ i = 0
    /\ doc = <<>>
    /\ order = <<>>

\* table_data, next_idx = parse_table(lines, i)
ParseTable ==
    /\ pc = "parse_table"
    /\ ret' = parse_table(arg.ls, arg.start_idx)
    /\ pc' = "parsed"
    /\ UNCHANGED <<lines, seen, footnotes, i, doc, order, arg>>

\* if table_data: add_table_to_doc(doc, table_data); ret keeps the cells
\* the "Add rows" loop assigned
RenderTable ==
    /\ pc = "parsed"
    /\ ret[1] # None
    /\ IF table_raises(ret[1])
       THEN /\ pc' = "raised"
            /\ UNCHANGED <<doc, ret>>
       ELSE /\ doc' = add_table_to_doc(doc, ret[1], arg.start_idx,
                                       ret[2] - arg.start_idx)
            /\ ret' = Append(ret, data_cell_writes(ret[1]))
            /\ pc' = "rendered"
    /\ UNCHANGED <<lines, seen, footnotes, i, order, arg>>

NextTable == ParseTable \/ RenderTable

SpecTable == InitTable /\ [][NextTable]_vars

(***************************************************************************)
(* Vocabulary of the properties.                                           *)
(***************************************************************************)
\* the 0-based indices of the input lines
LineIdx == 0..(Len(lines) - 1)

\* line idx of the input is a footnote definition (after trimming)
IsDefLine(idx) == footnote_match(strip(lines[idx + 1]))

DefNum(idx) == footnote_num(strip(lines[idx + 1]))

DefText(idx) == footnote_text(strip(lines[idx + 1]))

\* t contains an inline footnote reference [^N]
HasRef(t) ==
    \E pos \in 1..Len(t) :
        /\ HasAt(t, <<"[", "^">>, pos)
        /\ DigitRun(t, pos + 2) >= 1
        /\ HasAt(t, <<"]">>, pos + 2 + DigitRun(t, pos + 2))

\* the positions in doc of the blocks the second pass added
BodyBlocks == {n \in 1..Len(doc) : doc[n].src >= 0}

\* the positions in doc of the entries of the footnotes section
EntryBlocks == {n \in 1..Len(doc) : doc[n].role = "footnote"}

\* the input lines whose text a body block carries: its own line, and for a
\* table the header line and the data lines that gave a row
SourceLines(b) ==
    IF b.type = "table"
    THEN {b.src} \cup {idx \in (b.src + 2)..(b.src + b.span - 1) :
                          Cells(lines[idx + 1]) # <<>>}
    ELSE {b.src}

\* the runs of the footnotes-section entry "[num] text"
EntryRuns(num, text) ==
    LET segments == parse_markdown_line(<<"[">> \o num \o <<"]", " ">> \o text)
    IN  [n \in 1..Len(segments) |-> Run(segments[n][1], segments[n][2])]

\* line j is emitted by the paragraph rule and cannot be part of a table
IsParagraphLine(j) ==
    /\ Rule(lines, j) = "paragraph"
    /\ ~contains(lines[j + 1], <<"|">>)

\* definition k is the last one of its id (as written) in the input
IsLastDef(k) ==
    \A k2 \in LineIdx : (k2 > k /\ IsDefLine(k2)) => DefNum(k2) # DefNum(k)

(***************************************************************************)
(* C1: a footnote-definition line never contributes to the body: no body   *)
(* block is made from it and no table takes it as a row.                   *)
(* The code breaks this: parse_table takes every line with a '|' into the  *)
(* run, footnote definitions included.                                     *)
(***************************************************************************)
C1_FootnoteLinesStayOutOfBody ==
    \A n \in BodyBlocks :
        \A idx \in SourceLines(doc[n]) : ~IsDefLine(idx)

(***************************************************************************)
(* C2: after the body pass no run of a heading, blockquote, list item or   *)
(* paragraph contains an inline footnote reference [^N].                   *)
(* The code breaks this: the heading and blockquote branches do not        *)
(* rewrite references.                                                     *)
(***************************************************************************)
C2_NoFootnoteRefInBodySpans ==
    \A n \in BodyBlocks :
        doc[n].role \in {"heading", "blockquote", "numbered", "bullet", "paragraph"}
            => \A r \in 1..Len(doc[n].runs) : ~HasRef(doc[n].runs[r].text)

(***************************************************************************)
(* C3: forward references resolve.  The first pass is over, and the map    *)
(* holds every defined id, before the first body block is added; and at    *)
(* the end, for a paragraph line j that contains [^N] and a later          *)
(* definition line k of N, the paragraph of line j contains "[N]" and the  *)
(* footnotes section has exactly one entry for N.                          *)
(***************************************************************************)
\* the map is complete once a body block exists
C3_MapComplete ==
    BodyBlocks # {} =>
        /\ pc # "collect"
        /\ seen = Len(lines)
        /\ \A k \in LineIdx : IsDefLine(k) => HasKey(footnotes, DefNum(k))

\* line j refers to the id that line k > j defines
IsForwardRef(j, k) ==
    /\ j < k
    /\ IsParagraphLine(j)
    /\ IsDefLine(k)
    /\ contains(lines[j + 1], <<"[", "^">> \o DefNum(k) \o <<"]">>)

\* the paragraph made from line j contains the literal [N]
ParagraphShows(j, num) ==
    \E n \in BodyBlocks :
        /\ doc[n].src = j
        /\ doc[n].role = "paragraph"
        /\ \E r \in 1..Len(doc[n].runs) :
               contains(doc[n].runs[r].text, <<"[">> \o num \o <<"]">>)

\* C3 as stated: the map is complete before the body, and the entry is
\* "[N] text" for every later definition line "[^N]: text"
C3_EntryOfEveryLaterDefinition ==
    /\ C3_MapComplete
    /\ pc = "done" =>
        \A j, k \in LineIdx :
            IsForwardRef(j, k) =>
                /\ ParagraphShows(j, DefNum(k))
                /\ Cardinality({n \in EntryBlocks :
                        doc[n].runs = EntryRuns(DefNum(k), DefText(k))}) = 1

\* C3 as amended: the map is complete before the body, the paragraph shows
\* "[N]", and there is exactly one entry for N, "[N] text" with the text of
\* the last definition line of N
C3_ForwardReferencesResolve ==
    /\ C3_MapComplete
    /\ pc = "done" =>
        \A j, k \in LineIdx :
            (IsForwardRef(j, k) /\ IsLastDef(k)) =>
                /\ ParagraphShows(j, DefNum(k))
                /\ Cardinality({n \in EntryBlocks : doc[n].num = DefNum(k)}) = 1
                /\ \A n \in EntryBlocks :
                       doc[n].num = DefNum(k) =>
                           doc[n].runs = EntryRuns(DefNum(k), DefText(k))

C3_Witness ==
    /\ pc = "done"
    /\ \E j, k \in LineIdx :
           /\ IsForwardRef(j, k)
           /\ IsLastDef(k)
           /\ ParagraphShows(j, DefNum(k))
           /\ \E k2 \in LineIdx : j < k2 /\ k2 < k /\ IsDefLine(k2)
                                    /\ DefNum(k2) = DefNum(k)

(***************************************************************************)
(* C4: after the first pass the map has at most one entry per numeric id   *)
(* ("2" and "02" are the same id) and its text is that of the last         *)
(* definition line with that id.                                           *)
(* The code breaks this: the dict is keyed by the digits as written.       *)
(***************************************************************************)
C4_OneEntryPerNumericId ==
    pc # "collect" =>
        /\ \A m, n \in 1..Len(footnotes) :
               m # n => int(footnotes[m][1]) # int(footnotes[n][1])
        /\ \A n \in 1..Len(footnotes) :
               \E k \in LineIdx :
                   /\ IsDefLine(k)
                   /\ int(DefNum(k)) = int(footnotes[n][1])
                   /\ footnotes[n][2] = DefText(k)
                   /\ \A k2 \in LineIdx :
                          (k2 > k /\ IsDefLine(k2))
                              => int(DefNum(k2)) # int(DefNum(k))

(***************************************************************************)
(* C5: the entries of the footnotes section are in strictly ascending      *)
(* numeric order of id, whatever the order of the definitions.             *)
(* The code breaks this only through the defect of C4: two keys with the   *)
(* same number give two entries with equal ids.                            *)
(***************************************************************************)
C5_EntriesStrictlyAscending ==
    pc = "done" =>
        \A m, n \in EntryBlocks :
            m < n => int(doc[m].num) < int(doc[n].num)

(***************************************************************************)
(* C6: the footnotes section is there exactly when a definition was        *)
(* collected.  Without definitions the only page break is the one of the   *)
(* title page and no footnotes heading exists; with definitions a second   *)
(* page break follows the last body block, then the footnotes heading,     *)
(* then exactly one entry per entry of the map.                            *)
(***************************************************************************)
IsFootnotesHeading(b) ==
    /\ b.type = "paragraph"
    /\ b.alignment = "center"
    /\ b.runs = <<Run("bold", FootnotesHeadingText)>>

PageBreaks == {n \in 1..Len(doc) : doc[n].type = "page_break"}

HasDefinition == \E k \in LineIdx : IsDefLine(k)

C6_FootnotesSectionIffDefinitions ==
    pc = "done" =>
        /\ HasDefinition <=> footnotes # <<>>
        /\ ~HasDefinition =>
               /\ PageBreaks = {2}
               /\ \A n \in 3..Len(doc) :
                      n \in BodyBlocks /\ ~IsFootnotesHeading(doc[n])
               /\ EntryBlocks = {}
        /\ HasDefinition =>
               \E p \in 3..Len(doc) :
                   /\ PageBreaks = {2, p}
                   /\ \A n \in 3..(p - 1) : n \in BodyBlocks
                   /\ IsFootnotesHeading(doc[p + 1])
                   /\ \A n \in 1..p : ~IsFootnotesHeading(doc[n])
                   /\ EntryBlocks = (p + 3)..Len(doc)
                   /\ Len(doc) = p + 2 + Len(footnotes)
                   /\ \A e \in 1..Len(footnotes) :
                          Cardinality({n \in EntryBlocks :
                              /\ doc[n].num = footnotes[e][1]
                              /\ doc[n].runs = EntryRuns(footnotes[e][1],
                                                         footnotes[e][2])}) = 1

C6_Witness ==
    /\ pc = "done"
    /\ Len(footnotes) >= 2
    /\ BodyBlocks # {}
    /\ Cardinality(EntryBlocks) = Len(footnotes)

(***************************************************************************)
(* C7: a table is added at a cursor only when the line at the cursor and   *)
(* the next line both contain '|'; it is one block that takes the whole    *)
(* run of '|' lines from the cursor, and the cursor goes on at the first   *)
(* line after the run.  A '|' line not followed by one is never a table.   *)
(***************************************************************************)
\* the step adds a table block
TableAdded ==
    /\ Len(doc') = Len(doc) + 1
    /\ doc'[Len(doc')].type = "table"

C7_TableConsumesWholeRun ==
    [][ /\ TableAdded =>
            /\ pc = "body"
            /\ i + 1 < Len(lines)
            /\ contains(lines[i + 1], <<"|">>)
            /\ contains(lines[i + 2], <<"|">>)
            /\ i' >= i + 2
            /\ i' <= Len(lines)
            /\ \A idx \in i..(i' - 1) : contains(lines[idx + 1], <<"|">>)
            /\ i' < Len(lines) => ~contains(lines[i' + 1], <<"|">>)
            /\ doc'[Len(doc')].src = i
            /\ doc'[Len(doc')].span = i' - i
        /\ (/\ pc = "body"
            /\ i < Len(lines)
            /\ contains(lines[i + 1], <<"|">>)
            /\ (i + 1 < Len(lines) => ~contains(lines[i + 2], <<"|">>)))
           => (i' = i + 1 /\ ~TableAdded)
        /\ (Len(doc') > Len(doc) /\ ~TableAdded)
           => \A n \in 1..Len(doc') : n > Len(doc) => doc'[n].type # "table"
      ]_vars

C7_Witness ==
    \E n \in BodyBlocks :
        /\ doc[n].type = "table"
        /\ doc[n].span >= 3
        /\ i = doc[n].src + doc[n].span

(***************************************************************************)
(* C8: for a run of n >= 2 table lines, the headers are the cells of line  *)
(* 1, line 2 is discarded, and the rows are the cell lists of lines 3..n   *)
(* in source order, those with no cell dropped.  "| A | B |", "|---|---|", *)
(* "| 1 | 2 |" gives headers A, B and the single row 1, 2.                 *)
(***************************************************************************)
\* the length of the run of '|' lines of ls that starts at index st
RunLength(ls, st) ==
    CHOOSE n \in 0..(Len(ls) - st) :
        /\ \A m \in 1..n : contains(ls[st + m], <<"|">>)
        /\ st + n < Len(ls) => ~contains(ls[st + n + 1], <<"|">>)

\* f maps the rows, in order, onto the data lines that have cells
IsRowOrigin(f, rows, ls, st, n) ==
    /\ \A a, b \in DOMAIN f : a < b => f[a] < f[b]
    /\ \A m \in 3..n : Cells(ls[st + m]) # <<>> <=> \E a \in DOMAIN f : f[a] = m
    /\ \A a \in DOMAIN f : rows[a] = Cells(ls[st + f[a]])

C8_TableHeadersAndRows ==
    pc = "parsed" =>
        LET ls == arg.ls
            st == arg.start_idx
            n == RunLength(ls, st)
        IN  /\ n >= 2 =>
                /\ ret[1] # None
                /\ ret[2] = st + n
                /\ ret[1].headers = Cells(ls[st + 1])
                /\ \E f \in [1..Len(ret[1].rows) -> 3..n] :
                       IsRowOrigin(f, ret[1].rows, ls, st, n)
            /\ (ls = <<TH, TS, TR>> /\ st = 0) =>
                   ret[1] = [headers |-> << <<"A">>, <<"B">> >>,
                             rows |-> << << <<"1">>, <<"2">> >> >>]

C8_Witness ==
    /\ pc = "parsed"
    /\ arg.ls = <<TH, TR, TE, TL>>
    /\ arg.start_idx = 0
    /\ ret[1].rows = << << <<"a">>, <<"b">>, <<"c">> >> >>

(***************************************************************************)
(* C9: in the rendered table every data row has exactly as many columns as *)
(* the header; cell j of a row is in column j when j is within both the    *)
(* row and the header, cells beyond the header are ignored, columns a      *)
(* short row has no cell for stay empty, and no cell outside the header    *)
(* width is ever assigned.                                                 *)
(***************************************************************************)
C9_RowsFitHeaderWidth ==
    /\ pc # "raised"
    /\ pc = "rendered" =>
        LET headers == ret[1].headers
            rows == ret[1].rows
            grid == doc[1].grid
            writes == ret[3]
        IN  /\ Len(grid) = 1 + Len(rows)
            /\ \A r \in 1..Len(rows) :
                   /\ Len(grid[r + 1]) = Len(headers)
                   /\ \A c \in 1..Len(headers) :
                          IF c <= Len(rows[r])
                          THEN /\ grid[r + 1][c].text = rows[r][c]
                               /\ <<r, c>> \in writes
                          ELSE /\ grid[r + 1][c] = EmptyCell
                               /\ <<r, c>> \notin writes
            /\ \A w \in writes :
                   /\ w[1] \in 1..Len(rows)
                   /\ w[2] \in 1..Len(headers)

C9_Witness ==
    /\ pc = "rendered"
    /\ \E r \in 1..Len(ret[1].rows) : Len(ret[1].rows[r]) > Len(ret[1].headers)
    /\ \E r \in 1..Len(ret[1].rows) : Len(ret[1].rows[r]) < Len(ret[1].headers)
    /\ Len(ret[1].headers) >= 2

(***************************************************************************)
(* C10: a line with balanced double-marker emphasis, pre ** x ** post,     *)
(* scans to normal(pre), bold(x), normal(post), leaving out the normal     *)
(* span of an empty pre or post; "a **b** c" gives normal("a "),           *)
(* bold("b"), normal(" c").                                                *)
(***************************************************************************)
\* line = pre ** x ** post with pre of length p and x of length n >= 1
IsBalancedBold(line, p, n) ==
    /\ n >= 1
    /\ p + n + 4 <= Len(line)
    /\ HasAt(line, <<"*", "*">>, p + 1)
    /\ HasAt(line, <<"*", "*">>, p + n + 3)

\* the spans the statement gives for that decomposition
BoldSpans(line, p, n) ==
    (IF p > 0 THEN << <<"normal", SubSeq(line, 1, p)>> >> ELSE <<>>)
    \o << <<"bold", SubSeq(line, p + 3, p + n + 2)>> >>
    \o (IF p + n + 4 < Len(line)
        THEN << <<"normal", From(line, p + n + 5)>> >> ELSE <<>>)

\* no marker character in line outside the two markers of the decomposition
OnlyMarkers(line, p, n) ==
    \A q \in 1..Len(line) :
        line[q] = "*" => q \in {p + 1, p + 2, p + n + 3, p + n + 4}

\* C10 as stated: every line that contains **x** with x not empty scans to
\* normal(pre), bold(x), normal(post) for one of its decompositions
C10_EveryLineWithBalancedBold ==
    pc = "scanned" =>
        ((\E p, n \in 0..Len(arg) : IsBalancedBold(arg, p, n))
            => \E p, n \in 0..Len(arg) :
                   IsBalancedBold(arg, p, n) /\ ret[1] = BoldSpans(arg, p, n))

\* C10 as amended: a line pre ** x ** post in which pre, x and post hold no
\* marker character and x is not empty scans to normal(pre), bold(x),
\* normal(post)
C10_BalancedBoldAlone ==
    pc = "scanned" =>
        /\ \A p, n \in 0..Len(arg) :
               (IsBalancedBold(arg, p, n) /\ OnlyMarkers(arg, p, n))
                   => ret[1] = BoldSpans(arg, p, n)
        /\ arg = ScanExample =>
               ret[1] = << <<"normal", <<"a", " ">> >>, <<"bold", <<"b">> >>,
                           <<"normal", <<" ", "c">> >> >>

C10_Witness ==
    /\ pc = "scanned"
    /\ arg = ScanExample
    /\ IsBalancedBold(arg, 2, 1)
    /\ OnlyMarkers(arg, 2, 1)
    /\ Len(ret[1]) = 3

(***************************************************************************)
(* C11: a line with an unterminated emphasis marker, an opening ** or *    *)
(* with no matching close before the end of the line, scans to the single  *)
(* normal span that holds the line unchanged.                              *)
(***************************************************************************)
\* the first marker of the line is an opening marker with no close after
\* it: two stars with no two stars further on, or one star with no star
\* further on
OpensUnterminated(line) ==
    LET p == Find(line, <<"*">>, 1)
    IN  /\ p # 0
        /\ IF HasAt(line, <<"*", "*">>, p)
           THEN Find(line, <<"*", "*">>, p + 2) = 0
           ELSE Find(line, <<"*">>, p + 1) = 0

\* C11 as stated: a line whose first marker is never closed scans to
\* normal(line); the line "**a*" scans to italic("*a") instead
C11_UnterminatedStaysNormal ==
    pc = "scanned" =>
        (OpensUnterminated(arg) => ret[1] = << <<"normal", arg>> >>)

(***************************************************************************)
(* C12: the spans of a line come in the order of the line and partition    *)
(* its characters with no gap and no overlap: every character of the line  *)
(* is in exactly one span.                                                 *)
(***************************************************************************)
\* the texts of the spans one after the other
RECURSIVE SpanTexts(_)
SpanTexts(segments) ==
    IF segments = <<>> THEN <<>>
    ELSE segments[1][2] \o SpanTexts(Tail(segments))

\* the markers a span of the given kind is written between
MarkerOf(kind) ==
    IF kind = "bold" THEN <<"*", "*">>
    ELSE IF kind = "italic" THEN <<"*">>
    ELSE <<>>

\* the texts of the spans one after the other, each between its markers
RECURSIVE SpansWithMarkers(_)
SpansWithMarkers(segments) ==
    IF segments = <<>> THEN <<>>
    ELSE MarkerOf(segments[1][1]) \o segments[1][2] \o MarkerOf(segments[1][1])
             \o SpansWithMarkers(Tail(segments))

\* C12 as stated: the span texts, in order, are the line, character for
\* character
C12_SpansPartitionLine ==
    pc = "scanned" => SpanTexts(ret[1]) = arg

\* C12 as amended: the spans come in the order of the line and partition the
\* characters of the line that are not the markers of a bold or italic
\* span: the span texts in order, each bold text between two-star markers
\* and each italic text between one-star markers, are the line
C12_SpansAndMarkersPartitionLine ==
    pc = "scanned" =>
        /\ SpansWithMarkers(ret[1]) = arg
        /\ \A n \in 1..Len(ret[1]) : ret[1][n][1] \in {"normal", "bold", "italic"}

C12_Witness ==
    /\ pc = "scanned"
    /\ Len(ret[1]) >= 3
    /\ \E n \in 1..Len(ret[1]) : ret[1][n][1] = "bold"
    /\ \E n \in 1..Len(ret[1]) : ret[1][n][1] = "normal"
    /\ SpanTexts(ret[1]) # arg
    /\ SpansWithMarkers(ret[1]) = arg

(***************************************************************************)
(* C13: a line that begins with k heading markers, k in 1..3, is emitted   *)
(* as a Heading of level k whose spans are the scan of the line with the   *)
(* leading markers removed and the surrounding whitespace trimmed, the     *)
(* rest of the text unchanged; every Heading has a level in 1..3, and      *)
(* "### Title" gives Heading 3 with the one span normal("Title").          *)
(***************************************************************************)
\* the number of heading markers the line begins with
RECURSIVE LeadingMarkers(_)
LeadingMarkers(line) ==
    IF line # <<>> /\ Head(line) = "#" THEN 1 + LeadingMarkers(Tail(line))
    ELSE 0

\* the runs of the spans of a text
SpanRuns(text) ==
    LET segments == parse_markdown_line(text)
    IN  [n \in 1..Len(segments) |-> Run(segments[n][1], segments[n][2])]

LevelStyle(k) ==
    IF k = 1 THEN "Heading 1" ELSE IF k = 2 THEN "Heading 2" ELSE "Heading 3"

\* C13 as stated: the heading of a line of k in 1..3 leading markers has
\* level k and the spans of the text after the leading markers, trimmed;
\* the line "# a#b" gives the heading text "ab" instead of "a#b"
C13_HeadingStripsLeadingMarkers ==
    \A n \in 1..Len(doc) :
        doc[n].role = "heading" =>
            LET line == rstrip(lines[doc[n].src + 1])
                k == LeadingMarkers(line)
            IN  /\ doc[n].style \in {"Heading 1", "Heading 2", "Heading 3"}
                /\ k \in 1..3 =>
                       /\ doc[n].style = LevelStyle(k)
                       /\ doc[n].runs = SpanRuns(strip(From(line, k + 1)))

(***************************************************************************)
(* C14: the body blocks come in the order of the input lines, and list     *)
(* items are never merged: n consecutive unordered-list lines give n       *)
(* separate unordered list blocks, the i-th carrying the text of the i-th  *)
(* line.                                                                   *)
(***************************************************************************)
\* line idx was consumed into a table
InTable(idx) ==
    \E n \in 1..Len(doc) :
        /\ doc[n].type = "table"
        /\ doc[n].src <= idx
        /\ idx < doc[n].src + doc[n].span

\* line idx is an unordered-list line: a bullet marker, a space, a text,
\* and the table rule, which comes first, has not taken the line
IsListLine(idx) ==
    LET line == rstrip(lines[idx + 1])
    IN  /\ Len(line) >= 3
        /\ line[1] \in {"-", "*"}
        /\ line[2] = " "
        /\ ~InTable(idx)

\* the text of an unordered-list line, after the marker and the spaces
ListLineText(idx) == lstrip(From(rstrip(lines[idx + 1]), 3))

\* the positions in doc of the blocks that come from line idx
BlocksOf(idx) == {n \in 1..Len(doc) : doc[n].src = idx}

\* C14: body blocks are in line order, each unordered-list line the cursor
\* has passed has one block of its own, an unordered list paragraph with
\* the spans of its text, and the blocks of two list lines in a row are
\* next to each other in the document
C14_ListItemsInOrderNeverMerged ==
    /\ \A n, m \in BodyBlocks :
           n < m => doc[n].src + doc[n].span <= doc[m].src
    /\ \A idx \in LineIdx :
           (idx < i /\ IsListLine(idx)) =>
               /\ \E n \in BodyBlocks :
                      /\ BlocksOf(idx) = {n}
                      /\ doc[n].type = "paragraph"
                      /\ doc[n].style = "List Bullet"
                      /\ doc[n].span = 1
                      /\ doc[n].runs = SpanRuns(sub_refs(ListLineText(idx)))
               /\ (idx + 1 < i /\ IsListLine(idx + 1)) =>
                      \E n \in BodyBlocks :
                          /\ n + 1 \in BodyBlocks
                          /\ doc[n].src = idx
                          /\ doc[n + 1].src = idx + 1

\* three list lines in a row, of different texts, all passed
C14_Witness ==
    /\ pc = "done"
    /\ Len(lines) = 3
    /\ \A idx \in LineIdx : IsListLine(idx)
    /\ ListLineText(0) # ListLineText(1)
    /\ ListLineText(1) # ListLineText(2)
    /\ Cardinality(BodyBlocks) = 3

(***************************************************************************)
(* C15: the body pass is total.  On every line sequence, malformed markup  *)
(* included (unmatched emphasis markers, table rows shorter or longer than *)
(* the header, delimiter lines that give zero header cells, empty          *)
(* headings), it reaches the end of the input without raising, each line   *)
(* being skipped, emitted as a block, or consumed into a table.            *)
(***************************************************************************)
\* the positions in doc of the blocks that consumed line idx
BlocksOver(idx) ==
    {n \in BodyBlocks : doc[n].src <= idx /\ idx < doc[n].src + doc[n].span}

\* line idx is one the body pass skips: blank, or a footnote definition
IsSkippedLine(idx) ==
    \/ IsBlank(rstrip(lines[idx + 1]))
    \/ IsFootnoteDef(rstrip(lines[idx + 1]))

\* C15: no step raises, the cursor stays within the input and the pass is
\* over only with the cursor at the end of the input, and every line the
\* cursor has passed was consumed by exactly one block, or by none and is
\* then a skipped line
C15_BodyPassTotal ==
    /\ pc # "raised"
    /\ i \in 0..Len(lines)
    /\ pc \in {"entries", "save", "done"} => i = Len(lines)
    /\ \A idx \in LineIdx :
           idx < i =>
               \/ Cardinality(BlocksOver(idx)) = 1
               \/ BlocksOver(idx) = {} /\ IsSkippedLine(idx)

\* a finished conversion of a table whose delimiter-only header line gives
\* zero header cells and whose data row has three cells
C15_Witness ==
    /\ pc = "done"
    /\ \E n \in BodyBlocks :
           /\ doc[n].type = "table"
           /\ Len(doc[n].grid) = 2
           /\ doc[n].grid[1] = <<>>
           /\ Len(Cells(lines[doc[n].src + 3])) = 3

(***************************************************************************)
(* C16: every text-bearing block of the output has the right-to-left flag  *)
(* on its own paragraph: the title, every heading, paragraph, blockquote   *)
(* and list item, every table header cell, every table data cell that      *)
(* receives text, the footnotes heading and every footnote entry.          *)
(***************************************************************************)
TextRoles ==
    {"title", "heading", "paragraph", "blockquote", "numbered", "bullet",
     "footnotes_heading", "footnote"}

\* C16: a paragraph of one of the text-bearing kinds, and any paragraph
\* with a run, has the flag; so has every cell of the header row of a table
\* and every cell of a data row that holds text
C16_TextBlocksAreRTL ==
    \A n \in 1..Len(doc) :
        /\ (doc[n].role \in TextRoles \/ doc[n].runs # <<>>) => doc[n].bidi
        /\ doc[n].type = "table" =>
               \A r \in 1..Len(doc[n].grid) :
                   \A c \in 1..Len(doc[n].grid[r]) :
                       (r = 1 \/ doc[n].grid[r][c].text # <<>>)
                           => doc[n].grid[r][c].bidi

\* a finished document with a heading or paragraph, a table with a data
\* cell that holds text, the footnotes heading and a footnote entry
C16_Witness ==
    /\ pc = "done"
    /\ \E n \in 1..Len(doc) : doc[n].role = "footnotes_heading"
    /\ \E n \in 1..Len(doc) : doc[n].role = "footnote"
    /\ \E n \in 1..Len(doc) :
           /\ doc[n].type = "table"
           /\ Len(doc[n].grid) >= 2
           /\ doc[n].grid[1] # <<>>
           /\ doc[n].grid[2][1].text # <<>>

(***************************************************************************)
(* C17: at every cursor position of the dispatch the outcome is that of    *)
(* the first matching rule in the order blank line, footnote definition,   *)
(* separator, heading, blockquote, table start, ordered list, unordered    *)
(* list, paragraph; a heading line that also holds the cell delimiter,     *)
(* followed by a delimiter line, is a Heading and not a Table.             *)
(***************************************************************************)
RuleOrder ==
    <<"blank", "footnote", "separator", "heading", "blockquote", "table",
      "numbered", "bullet", "paragraph">>

\* the test of one rule on the line at cursor idx, taken on its own
Matches(rule, idx) ==
    LET line == rstrip(lines[idx + 1])
    IN  CASE rule = "blank" -> IsBlank(line)
          [] rule = "footnote" -> IsFootnoteDef(line)
          [] rule = "separator" -> IsSeparator(line)
          [] rule = "heading" -> IsHeading(line)
          [] rule = "blockquote" -> IsBlockquote(line)
          [] rule = "table" -> IsTableStart(lines, idx)
          [] rule = "numbered" -> numbered_list_match(line)
          [] rule = "bullet" -> IsBullet(line)
          [] rule = "paragraph" -> TRUE

\* the first rule of the order whose test the line at cursor idx passes
FirstMatch(idx) ==
    RuleOrder[CHOOSE k \in 1..Len(RuleOrder) :
                  /\ Matches(RuleOrder[k], idx)
                  /\ \A j \in 1..(k - 1) : ~Matches(RuleOrder[j], idx)]

\* the rule whose outcome a body block is, read from what the block is
BlockKind(b) ==
    IF b.type = "table" THEN "table"
    ELSE IF b.style \in {"Heading 1", "Heading 2", "Heading 3"} THEN "heading"
    ELSE IF b.style = "List Number" THEN "numbered"
    ELSE IF b.style = "List Bullet" THEN "bullet"
    ELSE IF b.runs = <<>> THEN "separator"
    ELSE IF b.left_indent # 0 THEN "blockquote"
    ELSE "paragraph"

\* C17: every body block is the outcome of the first matching rule at the
\* cursor position it was added at, and a line the cursor passed without a
\* block consuming it has blank line or footnote definition as its first
\* matching rule
C17_FirstMatchingRuleWins ==
    /\ \A n \in BodyBlocks : BlockKind(doc[n]) = FirstMatch(doc[n].src)
    /\ \A idx \in LineIdx :
           (idx < i /\ BlocksOver(idx) = {})
               => FirstMatch(idx) \in {"blank", "footnote"}

\* the heading line with a cell delimiter, followed by a delimiter line,
\* became a Heading, and the lines after it a Table
C17_Witness ==
    /\ pc = "done"
    /\ Len(lines) = 3
    /\ lines[1] = BHead3
    /\ Matches("table", 0)
    /\ Matches("heading", 0)
    /\ \E n \in BodyBlocks :
           /\ doc[n].src = 0
           /\ BlockKind(doc[n]) = "heading"
           /\ doc[n + 1].type = "table"

(***************************************************************************)
(* C18: a line that matched no earlier rule is emitted as an unordered     *)
(* list item exactly when it begins with a bullet marker followed by a     *)
(* space, and its spans are then the scan of the text with the marker      *)
(* stripped; every line that matches none of rules 1 to 8, such as one     *)
(* whose first character is a bullet character with no space after it, is  *)
(* emitted as a Paragraph.                                                 *)
(***************************************************************************)
\* none of the rules before the unordered-list rule matches at cursor idx
NoEarlierRule(idx) == \A k \in 1..7 : ~Matches(RuleOrder[k], idx)

\* the line begins with a bullet marker followed by a space
BeginsWithBulletAndSpace(line) ==
    /\ Len(line) >= 2
    /\ line[1] \in {"-", "*"}
    /\ line[2] = " "

\* C18 as stated: the block of a line that no earlier rule matched is an
\* unordered list item with the spans of the text after the marker when
\* the line begins with marker and space, and a Paragraph otherwise; the
\* line "-a" is emitted as an unordered list item instead
C18_BulletNeedsMarkerAndSpace ==
    \A n \in BodyBlocks :
        NoEarlierRule(doc[n].src) =>
            LET line == rstrip(lines[doc[n].src + 1])
            IN  IF BeginsWithBulletAndSpace(line)
                THEN /\ BlockKind(doc[n]) = "bullet"
                     /\ doc[n].runs = SpanRuns(sub_refs(lstrip(From(line, 3))))
                ELSE BlockKind(doc[n]) = "paragraph"

(***************************************************************************)
(* C19: a table line is split on the cell delimiter, every cell trimmed,   *)
(* and only the empty edge cells that come from a leading or trailing      *)
(* delimiter are dropped; an empty cell inside the line is kept, so every  *)
(* non-empty cell keeps its column position; header and data lines are     *)
(* split the same way.                                                     *)
(***************************************************************************)
\* the cells of a line as stated: split, trimmed, without an empty first
\* and an empty last cell
EdgeTrimmedCells(line) ==
    LET parts == split(line, "|")
        cells == [n \in 1..Len(parts) |-> strip(parts[n])]
        lo == IF cells[1] = <<>> THEN 2 ELSE 1
        hi == IF cells[Len(cells)] = <<>> THEN Len(cells) - 1 ELSE Len(cells)
    IN  SubSeq(cells, lo, hi)

\* C19 as stated: the headers of a parsed table are the edge-trimmed cells
\* of its first line and the rows those of its data lines that have cells;
\* the line "a||b|c" gives the three cells a, b, c instead of a, "", b, c
C19_InteriorEmptyCellsKept ==
    (pc = "parsed" /\ ret[1] # None) =>
        LET st == arg.start_idx
            data == [m \in 1..(ret[2] - st - 2) |->
                        EdgeTrimmedCells(arg.ls[st + 2 + m])]
        IN  /\ ret[1].headers = EdgeTrimmedCells(arg.ls[st + 1])
            /\ ret[1].rows = SelectSeq(data, LAMBDA cells : cells # <<>>)

(***************************************************************************)
(* C20: where a bold and an italic match can both start at the same        *)
(* position of a line the bold match is taken, and every match is          *)
(* non-greedy, closing at the nearest closing marker: "**a** b **c**"      *)
(* scans to bold("a"), normal(" b "), bold("c"), never to one span that    *)
(* covers both.                                                            *)
(***************************************************************************)
\* the nearest position from `from` on at which marker stands, 0 if none
NearestMarker(line, marker, from) ==
    IF \E q \in from..Len(line) : HasAt(line, marker, q)
    THEN CHOOSE q \in from..Len(line) :
             /\ HasAt(line, marker, q)
             /\ \A r \in from..(q - 1) : ~HasAt(line, marker, r)
    ELSE 0

\* a bold match can start at p: two stars, at least one character, and
\* two stars further on; an italic match likewise with one star
CanBold(line, p) ==
    HasAt(line, <<"*", "*">>, p) /\ NearestMarker(line, <<"*", "*">>, p + 3) # 0

CanItalic(line, p) ==
    HasAt(line, <<"*">>, p) /\ NearestMarker(line, <<"*">>, p + 2) # 0

\* the first position of the line at which a match can start, 0 if none
FirstStart(line) ==
    IF \E p \in 1..Len(line) : CanBold(line, p) \/ CanItalic(line, p)
    THEN CHOOSE p \in 1..Len(line) :
             /\ CanBold(line, p) \/ CanItalic(line, p)
             /\ \A r \in 1..(p - 1) : ~(CanBold(line, r) \/ CanItalic(line, r))
    ELSE 0

\* the spans of a line whose first match starts at p: the text before p,
\* the match, bold if a bold match can start at p, closed at the nearest
\* closing marker, and the spans of what follows the match
SpansFromFirstMatch(line, p) ==
    LET marker == IF CanBold(line, p) THEN <<"*", "*">> ELSE <<"*">>
        w == Len(marker)
        close == NearestMarker(line, marker, p + w + 1)
        kind == IF w = 2 THEN "bold" ELSE "italic"
        rest == From(line, close + w)
    IN  (IF p > 1 THEN << <<"normal", SubSeq(line, 1, p - 1)>> >> ELSE <<>>)
        \o << <<kind, SubSeq(line, p + w, close - 1)>> >>
        \o (IF rest = <<>> THEN <<>> ELSE parse_markdown_line(rest))

\* C20: the first match of every line is the bold one where both can start,
\* it closes at the nearest closing marker, and the scan goes on after it
\* in the same way; the example line gives its three spans
C20_BoldFirstAndNonGreedy ==
    pc = "scanned" =>
        /\ FirstStart(arg) # 0 =>
               ret[1] = SpansFromFirstMatch(arg, FirstStart(arg))
        /\ arg = ScanExample2 =>
               ret[1] = << <<"bold", <<"a">> >>, <<"normal", <<" ", "b", " ">> >>,
                           <<"bold", <<"c">> >> >>

\* the example line scanned: a bold and an italic match can both start at
\* its first character, and two closing markers follow the opening one
C20_Witness ==
    /\ pc = "scanned"
    /\ arg = ScanExample2
    /\ CanBold(arg, 1)
    /\ CanItalic(arg, 1)
    /\ NearestMarker(arg, <<"*", "*">>, 4) = 4
    /\ HasAt(arg, <<"*", "*">>, 12)
    /\ Len(ret[1]) = 3

(***************************************************************************)
(* C21: a line that begins with the blockquote marker is emitted as a      *)
(* Blockquote whose spans are the scan of the line with that leading       *)
(* marker removed and the whitespace trimmed; every other character of the *)
(* line, later occurrences of the marker character included, is kept.      *)
(***************************************************************************)
\* C21 as stated: the block of a line the blockquote rule takes is an
\* indented paragraph with the spans of the text after the first
\* character, trimmed; the line "> a>b" gives the text "ab" instead of
\* "a>b"
C21_BlockquoteStripsLeadingMarker ==
    \A n \in BodyBlocks :
        FirstMatch(doc[n].src) = "blockquote" =>
            LET line == rstrip(lines[doc[n].src + 1])
            IN  /\ BlockKind(doc[n]) = "blockquote"
                /\ doc[n].left_indent = 50
                /\ doc[n].right_indent = 50
                /\ doc[n].runs = SpanRuns(strip(From(line, 2)))

(***************************************************************************)
(* C22: the cursor of the body pass strictly increases on every iteration  *)
(* of the loop, by one for a skipped line and for a single-line block, by  *)
(* the length of the run, at least two, for a table, and never exceeds the *)
(* number of lines; so the pass ends for every input, with the cursor      *)
(* equal to the number of lines, and every line index is visited by        *)
(* exactly one dispatch or one table run.                                  *)
(***************************************************************************)
\* one iteration of the loop: it stays in the body pass, moves the cursor
\* forward over the lines it visits, i to i' - 1, and not beyond the input;
\* a table takes its whole run of at least two lines, any other branch one
\* line; outside the loop the cursor does not move
CursorStep ==
    /\ InBody =>
           /\ pc' = "body"
           /\ i' > i
           /\ i' <= Len(lines)
           /\ IF TableAdded
              THEN i' - i = RunLength(lines, i) /\ i' - i >= 2
              ELSE i' = i + 1
    /\ ~InBody => i' = i

\* C22: every step is such an iteration or leaves the cursor alone, the
\* cursor is never beyond the number of lines, each line before the cursor
\* was visited by one block or skipped, and the pass comes to its end with
\* the cursor at the number of lines
C22_CursorAdvancesAndPassEnds ==
    /\ [][CursorStep]_vars
    /\ [](i \in 0..Len(lines))
    /\ [](\A idx \in LineIdx : idx < i => Cardinality(BlocksOver(idx)) <= 1)
    /\ <>(pc \notin {"collect", "body"} /\ i = Len(lines))

\* the pass is over on the five lines of CursorExample: a single-line
\* block took the first, a table the next three in one step, which is
\* neither two lines nor the rest of the input, and a dispatch after the
\* table took the last
C22_Witness ==
    /\ pc = "done"
    /\ lines = CursorExample
    /\ i = 5
    /\ RunLength(lines, 1) = 3
    /\ Cardinality(BodyBlocks) = 3
    /\ \E n \in BodyBlocks :
           /\ doc[n].type = "table"
           /\ doc[n].src = 1
           /\ doc[n].span = 3
           /\ doc[n + 1].src = 4
           /\ doc[n + 1].style = "List Bullet"

====
